---- MODULE Spec2Model ----
(***************************************************************************)
(* Model of nets/ssd_vgg_300.py: the SSD 300 anchor geometry, the SSDNet   *)
(* wrapper object, the detection pipeline and the training loss with hard  *)
(* negative mining.                                                        *)
(*                                                                         *)
(* Numbers.  Real-valued tensors are kept in fixed point:                  *)
(*   - gscores and match_threshold in tenths        (0.5  -> 5)            *)
(*   - logits as small integers, softmax probabilities and cross-entropy   *)
(*     values in thousandths                        (0.731 -> 731)         *)
(*   - localisation offsets in thousandths                                 *)
(*   - negative_ratio in halves                     (3.0  -> 6)            *)
(*   - a loss term is kept as the exact fraction num/den it is computed as *)
(* A tensor of shape [batch, cells, ...] is a sequence (over the batch) of *)
(* sequences (over the cells); a per-layer list is a sequence of those.    *)
(***************************************************************************)
EXTENDS Integers, Sequences, FiniteSets, TLC

VARIABLES
    pc,      \* position of the running call
    args,    \* arguments of the running call
    locals,  \* local variables of the running function (tensors by name)
    ret,     \* what the call has produced for its caller
    params,  \* SSDNet.params of the object the call runs on
    graph_losses  \* the graph's tf.losses collection (tf.GraphKeys.LOSSES)

vars == <<pc, args, locals, ret, params, graph_losses>>

\* an unknown dimension of a static shape (None in a shape list)
None == -1

\* the value a Python function without return statement hands back
NoReturn == "None"

\* None where a box is expected (clipping_bbox=None)
NoBox == <<>>

Unset == [unset |-> TRUE]

(***************************************************************************)
(* Bounds of the model.                                                    *)
(***************************************************************************)
\* anchors of one ssd_losses call, all layers and batch elements together
MaxAnchors == 4

\* feature layers of a configuration of SSDNet
MaxLayers == 2

\* n_feat_layers given to ssd_size_bounds_to_values
MaxFeatLayers == 6

\* boxes given to detected_bboxes
MaxDetections == 2

(***************************************************************************)
(* Sequence helpers.                                                       *)
(***************************************************************************)
RECURSIVE SumSeq(_)
SumSeq(s) == IF s = <<>> THEN 0 ELSE Head(s) + SumSeq(Tail(s))

RECURSIVE ConcatAll(_)
ConcatAll(ss) == IF ss = <<>> THEN <<>> ELSE Head(ss) \o ConcatAll(Tail(ss))

Abs(x) == IF x < 0 THEN -x ELSE x

Min(a, b) == IF a < b THEN a ELSE b

Range(s) == {s[i] : i \in DOMAIN s}

\* a value an op produced, or the failure of the op that should have produced it
Ok(v) == [ok |-> TRUE, v |-> v]
Err == [ok |-> FALSE]

(***************************************************************************)
(* TensorFlow ops used by ssd_losses.                                      *)
(***************************************************************************)
\* tf.reshape(t, [-1, ...]): the batch and cell dimensions merged, row-major
reshape(t) == ConcatAll(t)

\* tf.concat(list, axis=0)
concat(ts) == ConcatAll(ts)

\* tf.cast(mask, dtype): 1.0 or 0.0, in thousandths
cast_float(m) == [i \in DOMAIN m |-> IF m[i] THEN 1000 ELSE 0]

\* tf.cast(mask, tf.int32)
cast_int(m) == [i \in DOMAIN m |-> IF m[i] THEN 1 ELSE 0]

\* tf.reduce_sum of a 0/1 float mask, as a count
reduce_count(fm) == SumSeq(fm) \div 1000

\* 1/(1+exp(-d)) in thousandths, for the logit differences of the model
Sigmoid(d) == CASE d = -1 -> 269 [] d = 0 -> 500 [] d = 1 -> 731

\* -ln(1/(1+exp(-d))) in thousandths
NegLogSigmoid(d) == CASE d = -1 -> 1313 [] d = 0 -> 693 [] d = 1 -> 313

\* slim.softmax over two classes: <<p(class 0), p(class 1)>>
softmax(l) == <<Sigmoid(l[1] - l[2]), Sigmoid(l[2] - l[1])>>

\* tf.nn.sparse_softmax_cross_entropy_with_logits for one anchor, label 0 or 1
sparse_softmax_cross_entropy(l, label) ==
    IF label = 0 THEN NegLogSigmoid(l[1] - l[2]) ELSE NegLogSigmoid(l[2] - l[1])

MaxOf(s) == CHOOSE x \in Range(s) : \A y \in Range(s) : y <= x

RemoveFirst(s, x) ==
    LET i == CHOOSE j \in DOMAIN s : s[j] = x /\ \A k \in 1..(j - 1) : s[k] # x
    IN  SubSeq(s, 1, i - 1) \o SubSeq(s, i + 1, Len(s))

\* tf.nn.top_k(s, k): the k largest values of s, largest first
RECURSIVE nn_top_k(_, _)
nn_top_k(s, k) ==
    IF k = 0 THEN <<>>
    ELSE LET m == MaxOf(s) IN <<m>> \o nn_top_k(RemoveFirst(s, m), k - 1)

\* val[-1]: the strided slice fails on an empty vector
last(val) == IF Len(val) = 0 THEN Err ELSE Ok(val[Len(val)])

\* tf.div(x, batch_size) on floats: no error on a zero divisor, IEEE nan or inf
div(x, y) ==
    IF y # 0 THEN [kind |-> "value", num |-> x, den |-> y]
    ELSE IF x = 0 THEN [kind |-> "nan"] ELSE [kind |-> "inf"]

\* custom_layers.abs_smooth: 0.5 x^2 for |x| < 1, else |x| - 0.5 (thousandths)
abs_smooth(x) == IF Abs(x) < 1000 THEN (x * x) \div 2000 ELSE Abs(x) - 500

(***************************************************************************)
(* ssd_losses: the tensors it computes, in the order of the code.          *)
(***************************************************************************)
\* gscores > match_threshold
ssd_pmask(gscores, match_threshold) ==
    [i \in DOMAIN gscores |-> gscores[i] > match_threshold]

\* tf.logical_and(tf.logical_not(pmask), gscores > -0.5)
ssd_nmask(pmask, gscores) ==
    [i \in DOMAIN gscores |-> (~pmask[i]) /\ gscores[i] > -5]

\* tf.where(nmask, predictions[:, 0], 1. - fnmask)
ssd_nvalues(nmask, predictions, fnmask) ==
    [i \in DOMAIN nmask |-> IF nmask[i] THEN predictions[i][1] ELSE 1000 - fnmask[i]]

\* tf.minimum(tf.cast(negative_ratio * n_positives, tf.int32) + batch_size,
\*            max_neg_entries), negative_ratio in halves
ssd_n_neg(negative_ratio, n_positives, batch_size, max_neg_entries) ==
    Min((negative_ratio * n_positives) \div 2 + batch_size, max_neg_entries)

\* val, idxes = tf.nn.top_k(-nvalues_flat, k=n_neg); max_hard_pred = -val[-1]
ssd_max_hard_pred(nvalues, n_neg) ==
    LET val == nn_top_k([i \in DOMAIN nvalues |-> -nvalues[i]], n_neg)
        l == last(val)
    IN  IF l.ok THEN Ok(-l.v) ELSE Err

\* mutant of ssd_final_nmask: the threshold value itself is kept (<=)
ssd_final_nmask_inclusive(nmask, nvalues, max_hard_pred) ==
    IF max_hard_pred.ok
    THEN Ok([i \in DOMAIN nmask |-> nmask[i] /\ nvalues[i] <= max_hard_pred.v])
    ELSE Err

\* tf.logical_and(nmask, nvalues < max_hard_pred)
ssd_final_nmask(nmask, nvalues, max_hard_pred) ==
    IF max_hard_pred.ok
    THEN Ok([i \in DOMAIN nmask |-> nmask[i] /\ nvalues[i] < max_hard_pred.v])
    ELSE Err

\* tf.div(tf.reduce_sum(loss * fpmask), batch_size) of cross_entropy_pos
ssd_loss_pos(logits, gclasses, fpmask, batch_size) ==
    div(SumSeq([i \in DOMAIN logits |->
            (sparse_softmax_cross_entropy(logits[i], gclasses[i]) * fpmask[i]) \div 1000]),
        batch_size)

\* tf.div(tf.reduce_sum(loss * fnmask), batch_size) of cross_entropy_neg
ssd_loss_neg(logits, no_classes, nmask, batch_size) ==
    IF nmask.ok
    THEN LET fnmask == cast_float(nmask.v)
         IN  Ok(div(SumSeq([i \in DOMAIN logits |->
                    (sparse_softmax_cross_entropy(logits[i], no_classes[i]) * fnmask[i])
                        \div 1000]),
                    batch_size))
    ELSE Err

\* tf.div(tf.reduce_sum(abs_smooth(localisations - glocalisations) * weights),
\*        batch_size) of localization, weights = alpha * fpmask
ssd_loss_loc(localisations, glocalisations, fpmask, alpha, batch_size) ==
    div(SumSeq([i \in DOMAIN localisations |->
            SumSeq([c \in DOMAIN localisations[i] |->
                (abs_smooth(localisations[i][c] - glocalisations[i][c])
                    * (alpha * fpmask[i])) \div 1000])]),
        batch_size)

(***************************************************************************)
(* Inputs of ssd_losses.  Every per-layer tensor of one call has the batch *)
(* dimension of logits[0]; one anchor carries its ground-truth score and   *)
(* class, its two class logits and its localisation with its target.       *)
(***************************************************************************)
Anchor(g, c, l, loc) ==
    [gscore |-> g, gclass |-> c, logits |-> l, loc |-> loc, gloc |-> <<0, 0, 0, 0>>]

AnchorVals ==
    { Anchor(-10, 0, <<0, 0>>, <<0, 0, 0, 0>>),
      Anchor(-5, 0, <<0, 1>>, <<0, 0, 0, 0>>),
      Anchor(0, 0, <<0, 1>>, <<0, 0, 0, 0>>),
      Anchor(0, 0, <<0, 0>>, <<0, 0, 0, 0>>),
      Anchor(0, 0, <<1, 0>>, <<0, 0, 0, 0>>),
      Anchor(8, 1, <<0, 0>>, <<1500, 400, 0, 0>>) }

MatchThresholds == {5, -10}

\* negative_ratio in halves: 0.5 and the default 3.0
NegativeRatios == {1, 6}

\* cells of one image, all layers together, for a batch of b images
MaxCells(b) == IF b = 0 THEN 1 ELSE MaxAnchors \div b

\* cells per layer: one layer, or a first layer of one cell and a second layer
Layouts(b) ==
    {<<c>> : c \in 1..MaxCells(b)} \cup {<<1, c>> : c \in 1..(MaxCells(b) - 1)}

LayerTensors(b, c) == [1..b -> [1..c -> AnchorVals]]

NetTensors(b, layout) ==
    IF Len(layout) = 1
    THEN {<<x>> : x \in LayerTensors(b, layout[1])}
    ELSE {<<x, y>> : x \in LayerTensors(b, layout[1]), y \in LayerTensors(b, layout[2])}

\* the per-layer list of one field of the anchors
Field(t, f) ==
    [l \in DOMAIN t |-> [b \in DOMAIN t[l] |-> [c \in DOMAIN t[l][b] |-> t[l][b][c][f]]]]

LossArgs(t, thr, r) ==
    [logits |-> Field(t, "logits"), localisations |-> Field(t, "loc"),
     gclasses |-> Field(t, "gclass"), glocalisations |-> Field(t, "gloc"),
     gscores |-> Field(t, "gscore"),
     match_threshold |-> thr, negative_ratio |-> r, alpha |-> 1]

(***************************************************************************)
(* ssd_losses, step by step.                                               *)
(***************************************************************************)
\* lines 492-514: batch size from logits[0], flatten and concatenate
ssd_losses_flatten ==
    /\ pc = "ssd_losses"
    /\ locals' =
         [batch_size |-> Len(args.logits[1]),
          logits |-> concat([i \in DOMAIN args.logits |-> reshape(args.logits[i])]),
          gclasses |-> concat([i \in DOMAIN args.logits |-> reshape(args.gclasses[i])]),
          gscores |-> concat([i \in DOMAIN args.logits |-> reshape(args.gscores[i])]),
          localisations |->
              concat([i \in DOMAIN args.logits |-> reshape(args.localisations[i])]),
          glocalisations |->
              concat([i \in DOMAIN args.logits |-> reshape(args.glocalisations[i])])]
    /\ pc' = "masks"
    /\ UNCHANGED <<args, ret, params, graph_losses>>

\* lines 517-531: positive mask, eligible negatives, number of negatives
ssd_losses_masks ==
    /\ pc = "masks"
    /\ LET pmask == ssd_pmask(locals.gscores, args.match_threshold)
           fpmask == cast_float(pmask)
           n_positives == reduce_count(fpmask)
           no_classes == cast_int(pmask)
           predictions == [i \in DOMAIN locals.logits |-> softmax(locals.logits[i])]
           nmask == ssd_nmask(pmask, locals.gscores)
           fnmask == cast_float(nmask)
           nvalues == ssd_nvalues(nmask, predictions, fnmask)
           max_neg_entries == reduce_count(fnmask)
           n_neg == ssd_n_neg(args.negative_ratio, n_positives, locals.batch_size,
                              max_neg_entries)
       IN  locals' = [pmask |-> pmask, fpmask |-> fpmask, n_positives |-> n_positives,
                      no_classes |-> no_classes, nmask |-> Ok(nmask),
                      nvalues |-> nvalues, max_neg_entries |-> max_neg_entries,
                      n_neg |-> n_neg] @@ locals
    /\ pc' = "top_k"
    /\ UNCHANGED <<args, ret, params, graph_losses>>

\* lines 533-537: the hardest negatives
ssd_losses_top_k ==
    /\ pc = "top_k"
    /\ LET max_hard_pred == ssd_max_hard_pred(locals.nvalues, locals.n_neg)
           nmask == ssd_final_nmask(locals.nmask.v, locals.nvalues, max_hard_pred)
       IN  locals' = [max_hard_pred |-> max_hard_pred, nmask |-> nmask] @@ locals
    /\ pc' = "terms"
    /\ UNCHANGED <<args, ret, params, graph_losses>>

\* lines 540-562: the three terms, each added to the losses collection;
\* the function ends without a return statement
ssd_losses_terms ==
    /\ pc = "terms"
    /\ graph_losses' = graph_losses \o
         << [name |-> "cross_entropy_pos",
             value |-> Ok(ssd_loss_pos(locals.logits, locals.gclasses, locals.fpmask,
                                       locals.batch_size))],
            [name |-> "cross_entropy_neg",
             value |-> ssd_loss_neg(locals.logits, locals.no_classes, locals.nmask,
                                    locals.batch_size)],
            [name |-> "localization",
             value |-> Ok(ssd_loss_loc(locals.localisations, locals.glocalisations,
                                       locals.fpmask, args.alpha, locals.batch_size))] >>
    /\ ret' = NoReturn
    /\ pc' = "done"
    /\ UNCHANGED <<args, locals, params>>

LossInit ==
    /\ pc = "ssd_losses"
    /\ \E b \in 0..MaxAnchors : \E layout \in Layouts(b) : \E t \in NetTensors(b, layout) :
         \E thr \in MatchThresholds : \E r \in NegativeRatios :
            args = LossArgs(t, thr, r)
    /\ locals = <<>>
    /\ ret = Unset
    /\ params = Unset
    /\ graph_losses = <<>>

LossNext ==
    \/ ssd_losses_flatten
    \/ ssd_losses_masks
    \/ ssd_losses_top_k
    \/ ssd_losses_terms

SpecLoss == LossInit /\ [][LossNext]_vars

(***************************************************************************)
(* Claims about ssd_losses.  The sets below are stated from the inputs,    *)
(* not from the masks the code computes.                                   *)
(***************************************************************************)
LossAnchors == DOMAIN locals.gscores

PositiveSet == {i \in LossAnchors : locals.gscores[i] > args.match_threshold}

EligibleSet == {i \in LossAnchors : i \notin PositiveSet /\ locals.gscores[i] > -5}

\* predicted background probability of anchor i
BackgroundProb(i) == softmax(locals.logits[i])[1]

\* the anchors of the final negative mask; none when the mask was not produced
SelectedSet ==
    IF locals.nmask.ok THEN {i \in LossAnchors : locals.nmask.v[i]} ELSE {}

\* floor(negative_ratio * n_pos) + batch_size, capped by the eligible negatives
ClaimedNNeg ==
    Min(Cardinality(EligibleSet),
        (args.negative_ratio * Cardinality(PositiveSet)) \div 2 + locals.batch_size)

LossTerm(n) == (CHOOSE t \in Range(graph_losses) : t.name = n).value

LossDone == pc = "done" /\ ret = NoReturn

\* C2: the final negative mask is exactly the n_neg eligible negatives of lowest
\* background probability, n_neg = min(eligible count, floor(negative_ratio *
\* n_pos) + batch_size); with pairwise distinct probabilities its size is n_neg.
C2_HardNegativesAreTheNNegLowest ==
    (LossDone /\ locals.nmask.ok) =>
        /\ SelectedSet \subseteq EligibleSet
        /\ \A i \in SelectedSet : \A j \in EligibleSet \ SelectedSet :
              BackgroundProb(i) <= BackgroundProb(j)
        /\ (\A i, j \in EligibleSet : i # j => BackgroundProb(i) # BackgroundProb(j))
              => Cardinality(SelectedSet) = ClaimedNNeg

\* C3: the number of selected hard negatives is at most the eligible-negative
\* count and at most negative_ratio * n_pos + batch_size.
C3_SelectedAtMostBound ==
    LossDone =>
        /\ Cardinality(SelectedSet) <= Cardinality(EligibleSet)
        /\ 2 * Cardinality(SelectedSet)
              <= args.negative_ratio * Cardinality(PositiveSet) + 2 * locals.batch_size

\* C3 witness: a finished call that selected a hard negative while more eligible
\* negatives than the ratio bound were on offer, two of them tied.
C3_Witness ==
    /\ LossDone
    /\ Cardinality(SelectedSet) >= 1
    /\ 2 * Cardinality(EligibleSet)
          > args.negative_ratio * Cardinality(PositiveSet) + 2 * locals.batch_size
    /\ \E i, j \in EligibleSet : i # j /\ BackgroundProb(i) = BackgroundProb(j)

\* C4: with no positive anchor and at least batch_size eligible negatives, at
\* least batch_size anchors are selected as hard negatives.
C4_AtLeastBatchSizeNegatives ==
    (LossDone /\ locals.batch_size >= 1 /\ PositiveSet = {}
        /\ Cardinality(EligibleSet) >= locals.batch_size) =>
        /\ locals.nmask.ok
        /\ Cardinality(SelectedSet) >= locals.batch_size

\* C5: when every gscore is at or below -0.5 the call completes without error,
\* n_pos = 0, n_neg = 0, and the positive and hard-negative terms are 0.
C5_NoEligibleAnchorsGivesZeroLosses ==
    (LossDone /\ locals.batch_size >= 1 /\ args.match_threshold = 5
        /\ \A i \in LossAnchors : locals.gscores[i] <= -5) =>
        /\ locals.n_positives = 0
        /\ locals.n_neg = 0
        /\ LossTerm("cross_entropy_pos").ok
        /\ LossTerm("cross_entropy_pos").v = [kind |-> "value", num |-> 0,
                                              den |-> locals.batch_size]
        /\ LossTerm("cross_entropy_neg").ok
        /\ LossTerm("cross_entropy_neg").v = [kind |-> "value", num |-> 0,
                                              den |-> locals.batch_size]

\* C6: with batch_size = 0 the call ends in an error before any loss term is
\* produced: no term of the collection carries a value, least of all the nan
\* or inf of a division by zero.
C6_ZeroBatchRaises ==
    (pc # "ssd_losses" /\ locals.batch_size = 0) =>
        \A i \in DOMAIN graph_losses : ~graph_losses[i].value.ok

\* C13: an anchor whose gscore is at or below -0.5 is, for every match_threshold,
\* in neither the positive mask nor the selected hard-negative mask, so it
\* weighs in none of the three terms; and no anchor is in both masks.
C13_IgnoredAnchorsInNoMask ==
    LossDone =>
        /\ \A i \in LossAnchors : locals.gscores[i] <= -5 =>
              /\ ~locals.pmask[i]
              /\ locals.fpmask[i] = 0
              /\ i \notin SelectedSet
        /\ \A i \in LossAnchors : ~(locals.pmask[i] /\ i \in SelectedSet)

(***************************************************************************)
(* Several calls of ssd_losses (SSDNet.losses passes its arguments on and  *)
(* returns what ssd_losses returns) building one graph.                    *)
(***************************************************************************)
MaxCalls == 2

\* arguments of a call: one image, two layers of one cell
CallArgs ==
    {LossArgs(t, 5, 6) : t \in NetTensors(1, <<1, 1>>)}

\* the caller calls ssd_losses again (lines 489-490), in the same graph
ssd_losses_call ==
    /\ pc = "done"
    /\ Len(graph_losses) < 3 * MaxCalls
    /\ args' \in CallArgs
    /\ locals' = <<>>
    /\ ret' = Unset
    /\ pc' = "ssd_losses"
    /\ UNCHANGED <<params, graph_losses>>

LossCallsInit ==
    /\ pc = "ssd_losses"
    /\ args \in CallArgs
    /\ locals = <<>>
    /\ ret = Unset
    /\ params = Unset
    /\ graph_losses = <<>>

LossCallsNext ==
    \/ ssd_losses_flatten
    \/ ssd_losses_masks
    \/ ssd_losses_top_k
    \/ ssd_losses_terms
    \/ ssd_losses_call

SpecLossCalls == LossCallsInit /\ [][LossCallsNext]_vars

\* C12: a call returns the three loss terms to its caller and leaves no shared
\* state behind: nothing outside the returned value has changed.
C12_ReturnsTermsNoSharedState ==
    pc = "done" =>
        /\ ret # NoReturn
        /\ graph_losses = <<>>

(***************************************************************************)
(* SSDNet: the configuration record, the network, the anchors.             *)
(* A tensor is modelled by its static shape (None for an unknown           *)
(* dimension) and the layer scope it was built in.                         *)
(***************************************************************************)
Raised(e) == [raised |-> e]

IsRaised(r) == "raised" \in DOMAIN r

\* SSDNet.default_params (lines 87-97); ratios as <<numerator, denominator>>
default_params ==
    [img_shape |-> <<300, 300>>,
     num_classes |-> 21,
     no_annotation_label |-> 21,
     feat_layers |-> <<"block4", "block7", "block8", "block9", "block10", "block11">>,
     feat_shapes |-> <<<<38, 38>>, <<19, 19>>, <<10, 10>>, <<5, 5>>, <<3, 3>>, <<1, 1>>>>,
     anchor_size_bounds |-> <<15, 90>>,
     anchor_sizes |-> <<<<21, 45>>, <<45, 99>>, <<99, 153>>, <<153, 207>>, <<207, 261>>,
                        <<261, 315>>>>,
     anchor_ratios |-> << <<<<2, 1>>, <<1, 2>>>>,
                          <<<<2, 1>>, <<1, 2>>, <<3, 1>>, <<1, 3>>>>,
                          <<<<2, 1>>, <<1, 2>>, <<3, 1>>, <<1, 3>>>>,
                          <<<<2, 1>>, <<1, 2>>, <<3, 1>>, <<1, 3>>>>,
                          <<<<2, 1>>, <<1, 2>>>>,
                          <<<<2, 1>>, <<1, 2>>>> >>,
     anchor_steps |-> <<8, 16, 32, 64, 100, 300>>,
     anchor_offset |-> <<1, 2>>,
     normalizations |-> <<20, -1, -1, -1, -1, -1>>,
     prior_scaling |-> <<<<1, 10>>, <<1, 10>>, <<2, 10>>, <<2, 10>>>>]

\* shape[1:4] of a shape list
Slice1to4(shape) == SubSeq(shape, 2, Min(4, Len(shape)))

\* the loop of ssd_feat_shapes_from_net (lines 229-242), feat_shapes so far
RECURSIVE feat_shapes_loop(_, _, _)
feat_shapes_loop(predictions, default_shapes, feat_shapes) ==
    LET i == Len(feat_shapes) + 1
    IN  IF i > Len(predictions) THEN feat_shapes
        ELSE LET shape == Slice1to4(predictions[i].shape)
             IN  IF None \in Range(shape) THEN default_shapes
                 ELSE feat_shapes_loop(predictions, default_shapes,
                                       Append(feat_shapes, shape))

ssd_feat_shapes_from_net(predictions, default_shapes) ==
    feat_shapes_loop(predictions, default_shapes, <<>>)

\* A relative height or width is carried by its square, the fraction
\* <<numerator, denominator>>: sqrt(sizes[0] * sizes[1]) / img_shape[0] is
\* <<sizes[0] * sizes[1], img_shape[0]^2>>.  np.zeros fills with <<0, 1>>.
zeros(n) == [k \in 1..n |-> <<0, 1>>]

\* the loop over ratios of ssd_anchor_one_layer (lines 292-294) from the i-th
\* ratio on, i counted from 1: slot i + di of h and w, counted from 1
RECURSIVE anchor_ratios_loop(_, _, _, _, _, _)
anchor_ratios_loop(hw, img_shape, sizes, ratios, di, i) ==
    IF i > Len(ratios) THEN hw
    ELSE LET r == ratios[i]
         IN  anchor_ratios_loop(
                [h |-> [hw.h EXCEPT ![i + di] =
                            <<sizes[1] * sizes[1] * r[2], img_shape[1] * img_shape[1] * r[1]>>],
                 w |-> [hw.w EXCEPT ![i + di] =
                            <<sizes[1] * sizes[1] * r[1], img_shape[2] * img_shape[2] * r[2]>>]],
                img_shape, sizes, ratios, di, i + 1)

\* h[0], w[0] of ssd_anchor_one_layer (lines 280-286) in the zero vectors
anchor_first(img_shape, sizes, ratios) ==
    LET num_anchors == Len(sizes) + Len(ratios)
    IN  [h |-> [zeros(num_anchors) EXCEPT ![1] =
                    <<sizes[1] * sizes[1], img_shape[1] * img_shape[1]>>],
         w |-> [zeros(num_anchors) EXCEPT ![1] =
                    <<sizes[1] * sizes[1], img_shape[2] * img_shape[2]>>]]

\* h[1], w[1] of ssd_anchor_one_layer (lines 289-290)
anchor_second(hw, img_shape, sizes) ==
    [h |-> [hw.h EXCEPT ![2] = <<sizes[1] * sizes[2], img_shape[1] * img_shape[1]>>],
     w |-> [hw.w EXCEPT ![2] = <<sizes[1] * sizes[2], img_shape[2] * img_shape[2]>>]]

\* mutant of anchor_heights_widths: di is not advanced past the second ratio-1
\* anchor, so the ratios are written from h[1] on
anchor_heights_widths_di_not_advanced(img_shape, sizes, ratios) ==
    LET first == anchor_first(img_shape, sizes, ratios)
    IN  IF Len(sizes) > 1
        THEN anchor_ratios_loop(anchor_second(first, img_shape, sizes),
                                img_shape, sizes, ratios, 1, 1)
        ELSE anchor_ratios_loop(first, img_shape, sizes, ratios, 1, 1)

\* h and w of ssd_anchor_one_layer (lines 280-294), di as in lines 287-291
anchor_heights_widths(img_shape, sizes, ratios) ==
    LET first == anchor_first(img_shape, sizes, ratios)
    IN  IF Len(sizes) > 1
        THEN anchor_ratios_loop(anchor_second(first, img_shape, sizes),
                                img_shape, sizes, ratios, 2, 1)
        ELSE anchor_ratios_loop(first, img_shape, sizes, ratios, 1, 1)

\* ssd_anchor_one_layer (lines 245-295): the grid shape of y and x, the first
\* centre (0 + offset) * step / img_shape[0], the length of h and w, h[0], and
\* the vectors h and w; sizes[0] of an empty sizes raises IndexError
ssd_anchor_one_layer(img_shape, feat_shape, sizes, ratios, step, offset) ==
    IF Len(sizes) = 0 THEN Raised("IndexError")
    ELSE LET hw == anchor_heights_widths(img_shape, sizes, ratios)
         IN  [grid |-> <<feat_shape[1], feat_shape[2], 1>>,
              y0 |-> <<offset[1] * step, offset[2] * img_shape[1]>>,
              num_anchors |-> Len(sizes) + Len(ratios),
              h0 |-> <<sizes[1], img_shape[1]>>,
              h |-> hw.h, w |-> hw.w]

\* the loop of ssd_anchors_all_layers (lines 302-307): indexing past the end of
\* a list raises IndexError, and so does ssd_anchor_one_layer for an empty
\* sizes entry; an exception leaves the function; otherwise the list
\* layers_anchors is returned
RECURSIVE anchors_loop(_, _, _, _, _, _, _)
anchors_loop(img_shape, layers_shape, anchor_sizes, anchor_ratios, anchor_steps, offset, layers_anchors) ==
    LET i == Len(layers_anchors) + 1
    IN  IF i > Len(layers_shape) THEN [layers_anchors |-> layers_anchors]
        ELSE IF i > Len(anchor_sizes) \/ i > Len(anchor_ratios) \/ i > Len(anchor_steps)
        THEN Raised("IndexError")
        ELSE LET anchor_bboxes == ssd_anchor_one_layer(img_shape, layers_shape[i],
                                      anchor_sizes[i], anchor_ratios[i], anchor_steps[i],
                                      offset)
             IN  IF IsRaised(anchor_bboxes) THEN anchor_bboxes
                 ELSE anchors_loop(img_shape, layers_shape, anchor_sizes, anchor_ratios,
                                   anchor_steps, offset,
                                   Append(layers_anchors, anchor_bboxes))

\* mutant of ssd_anchors_all_layers: every layer is given the sizes of the
\* first layer
ssd_anchors_all_layers_first_sizes(img_shape, layers_shape, anchor_sizes, anchor_ratios, anchor_steps, offset) ==
    anchors_loop(img_shape, layers_shape,
                 [i \in DOMAIN anchor_sizes |-> anchor_sizes[1]], anchor_ratios,
                 anchor_steps, offset, <<>>)

ssd_anchors_all_layers(img_shape, layers_shape, anchor_sizes, anchor_ratios, anchor_steps, offset) ==
    anchors_loop(img_shape, layers_shape, anchor_sizes, anchor_ratios, anchor_steps,
                 offset, <<>>)

\* ssd_multibox_layer (lines 331-352): the shapes of cls_pred and loc_pred for a
\* feature map of shape [batch, H, W, C]
ssd_multibox_layer(inputs, num_classes, sizes, ratios, normalization) ==
    LET num_anchors == Len(sizes) + Len(ratios)
        lead == SubSeq(inputs.shape, 1, 3)
    IN  [cls_pred |-> [layer |-> inputs.layer, normalized |-> normalization > 0,
                       shape |-> lead \o <<num_anchors, num_classes>>],
         loc_pred |-> [layer |-> inputs.layer, normalized |-> normalization > 0,
                       shape |-> lead \o <<num_anchors, 4>>]]

\* slim.max_pool2d on one spatial dimension n (None stays None): padding SAME
\* gives ceil(n / stride), VALID floor((n - kernel) / stride) + 1; 0 stands for
\* a dimension that cannot be built (n smaller than the kernel)
max_pool2d(n, kernel, stride, padding) ==
    IF n = None THEN None
    ELSE IF padding = "SAME" THEN (n + stride - 1) \div stride
    ELSE IF n < kernel THEN 0
    ELSE (n - kernel) \div stride + 1

\* slim.conv2d with padding='VALID' on one spatial dimension (lines 401-419)
conv2d_valid(n, kernel, stride) ==
    IF n = None THEN None
    ELSE IF n < kernel THEN 0
    ELSE (n - kernel) \div stride + 1

\* custom_layers.pad2d(net, pad=(1, 1)) on one spatial dimension
pad2d(n) == IF n = None THEN None ELSE IF n = 0 THEN 0 ELSE n + 2

\* one spatial dimension of the feature maps of lines 366-420, for an input of
\* dimension n.  The convolutions of blocks 1 to 7 keep the dimension (SAME is
\* the default of slim.conv2d); the pools take the padding of the arg_scope the
\* caller built the network in (SAME in ssd_arg_scope, line 457, else VALID).
block_dims(n, pool_padding) ==
    LET pool1 == max_pool2d(n, 2, 2, pool_padding)
        pool2 == max_pool2d(pool1, 2, 2, pool_padding)
        pool3 == max_pool2d(pool2, 2, 2, pool_padding)
        pool4 == max_pool2d(pool3, 2, 2, pool_padding)
        pool5 == max_pool2d(pool4, 3, 1, pool_padding)
        block8 == conv2d_valid(pad2d(pool5), 3, 2)
        block9 == conv2d_valid(pad2d(block8), 3, 2)
        block10 == conv2d_valid(block9, 3, 1)
        block11 == conv2d_valid(block10, 3, 1)
    IN  [block4 |-> pool3, block7 |-> pool5, block8 |-> block8, block9 |-> block9,
         block10 |-> block10, block11 |-> block11]

\* the output channels of the feature maps (lines 380, 394, 403, 409, 414, 419)
block_channels ==
    [block4 |-> 512, block7 |-> 1024, block8 |-> 512, block9 |-> 256,
     block10 |-> 256, block11 |-> 256]

\* the feature maps of the VGG and SSD blocks (lines 366-420) for an input batch
end_points(inputs) ==
    LET padding == IF inputs.arg_scope THEN "SAME" ELSE "VALID"
        height == block_dims(inputs.shape[2], padding)
        width == block_dims(inputs.shape[3], padding)
    IN  [l \in DOMAIN block_channels |->
            [layer |-> l,
             shape |-> <<inputs.shape[1], height[l], width[l], block_channels[l]>>]]

\* a VALID convolution of a feature map smaller than its kernel: the graph
\* cannot be built (ValueError, negative dimension size)
negative_dimension(inputs) ==
    LET maps == end_points(inputs)
    IN  \E l \in DOMAIN maps : \E k \in 2..3 : maps[l].shape[k] = 0

\* the prediction loop of ssd_net (lines 423-437)
RECURSIVE ssd_net_loop(_, _, _, _, _, _, _)
ssd_net_loop(inputs, num_classes, feat_layers, anchor_sizes, anchor_ratios, normalizations, acc) ==
    LET i == Len(acc.logits) + 1
    IN  IF i > Len(feat_layers) THEN acc
        ELSE IF i > Len(anchor_sizes) \/ i > Len(anchor_ratios) \/ i > Len(normalizations)
        THEN Raised("IndexError")
        ELSE LET r == ssd_multibox_layer(end_points(inputs)[feat_layers[i]], num_classes,
                                         anchor_sizes[i], anchor_ratios[i],
                                         normalizations[i])
             IN  ssd_net_loop(inputs, num_classes, feat_layers, anchor_sizes,
                              anchor_ratios, normalizations,
                              [predictions |-> Append(acc.predictions, r.cls_pred),
                               logits |-> Append(acc.logits, r.cls_pred),
                               localisations |-> Append(acc.localisations, r.loc_pred)])

\* ssd_net (lines 356-437): the blocks are built before the prediction loop
ssd_net(inputs, num_classes, feat_layers, anchor_sizes, anchor_ratios, normalizations) ==
    IF negative_dimension(inputs) THEN Raised("ValueError")
    ELSE ssd_net_loop(inputs, num_classes, feat_layers, anchor_sizes, anchor_ratios,
                 normalizations,
                 [predictions |-> <<>>, logits |-> <<>>, localisations |-> <<>>])

(***************************************************************************)
(* Configurations: the first L layers of the default configuration, valid, *)
(* or with one per-layer list one entry shorter or longer than the rest.   *)
(***************************************************************************)
PerLayerLists ==
    {"feat_layers", "feat_shapes", "anchor_sizes", "anchor_ratios", "anchor_steps",
     "normalizations"}

Prefix(s, n) == SubSeq(s, 1, n)

Config(L, which, delta) ==
    [f \in DOMAIN default_params |->
        IF f \in PerLayerLists
        THEN Prefix(default_params[f], IF f = which THEN L + delta ELSE L)
        ELSE default_params[f]]

\* no list is empty
Configs ==
    {Config(L, "none", 0) : L \in 1..MaxLayers}
        \cup {Config(c[1], c[2], c[3]) :
                 c \in {d \in (1..MaxLayers) \X PerLayerLists \X {-1, 1} : d[1] + d[3] >= 1}}

\* input batches [batch, height, width, 3], static or not, and whether the
\* caller builds the network inside slim.arg_scope(ssd_arg_scope())
NetInputs ==
    {[shape |-> sh, arg_scope |-> a] :
        sh \in {<<None, None, None, 3>>, <<None, 300, 300, 3>>, <<1, 300, 300, 3>>,
                <<1, 512, 512, 3>>},
        a \in BOOLEAN}

\* shapes a caller's prediction of layer i can have: unknown, that of the 300
\* network, half known, or an evaluated array of another resolution
PredictionKinds == {"unknown", "default", "half", "array"}

PredictionShape(i, kind) ==
    IF kind = "unknown" THEN <<None, None, None, 4, 21>>
    ELSE IF kind = "default"
    THEN <<None, default_params.feat_shapes[i][1], default_params.feat_shapes[i][2], 4, 21>>
    ELSE IF kind = "half" THEN <<None, default_params.feat_shapes[i][1], None, 4, 21>>
    ELSE <<1, 64, 64, 4, 21>>

PredictionShapes(i) == {PredictionShape(i, kind) : kind \in PredictionKinds}

\* prediction lists with one entry per configured layer: every layer of the
\* same kind of shape, or all but one
PredictionLists(feat_layers) ==
    {[i \in DOMAIN feat_layers |-> PredictionShape(i, IF i = j THEN one ELSE rest)] :
        j \in DOMAIN feat_layers, one \in PredictionKinds, rest \in PredictionKinds}

AsPredictions(feat_layers, shapes) ==
    [i \in DOMAIN feat_layers |-> [layer |-> feat_layers[i], shape |-> shapes[i]]]

(***************************************************************************)
(* The methods of SSDNet.                                                  *)
(***************************************************************************)
\* SSDNet.net (lines 110-126)
SSDNet_net ==
    /\ pc = "idle"
    /\ \E inputs \in NetInputs : \E update_feat_shapes \in BOOLEAN :
         LET r == ssd_net(inputs, params.num_classes, params.feat_layers,
                          params.anchor_sizes, params.anchor_ratios,
                          params.normalizations)
         IN  /\ args' = [op |-> "net", inputs |-> inputs,
                         update_feat_shapes |-> update_feat_shapes]
             /\ locals' = [feat_shapes |-> params.feat_shapes]
             /\ ret' = r
             /\ params' = IF update_feat_shapes /\ ~IsRaised(r)
                          THEN [params EXCEPT !.feat_shapes =
                                   ssd_feat_shapes_from_net(r.predictions,
                                                            params.feat_shapes)]
                          ELSE params
    /\ UNCHANGED <<pc, graph_losses>>

\* SSDNet.update_feature_shapes (lines 139-145)
SSDNet_update_feature_shapes ==
    /\ pc = "idle"
    /\ \E shapes \in PredictionLists(params.feat_layers) :
         LET predictions == AsPredictions(params.feat_layers, shapes)
         IN  /\ args' = [op |-> "update_feature_shapes", predictions |-> predictions]
             /\ locals' = [feat_shapes |-> params.feat_shapes]
             /\ params' = [params EXCEPT !.feat_shapes =
                              ssd_feat_shapes_from_net(predictions, params.feat_shapes)]
    /\ ret' = NoReturn
    /\ UNCHANGED <<pc, graph_losses>>

\* SSDNet.anchors (lines 148-153)
SSDNet_anchors ==
    /\ pc = "idle"
    /\ \E img_shape \in {<<300, 300>>, <<512, 512>>} :
         /\ args' = [op |-> "anchors", img_shape |-> img_shape]
         /\ ret' = ssd_anchors_all_layers(img_shape, params.feat_shapes,
                                          params.anchor_sizes, params.anchor_ratios,
                                          params.anchor_steps, params.anchor_offset)
    /\ locals' = [feat_shapes |-> params.feat_shapes]
    /\ UNCHANGED <<pc, params, graph_losses>>

\* what a caller hands to the constructor: an SSDParams, or anything else
\* (None by default)
ConstructorArgs ==
    {[isinstance |-> TRUE, params |-> c] : c \in Configs} \cup {[isinstance |-> FALSE]}

\* SSDNet.__init__ (lines 99-107)
SSDNet_init(a) == IF a.isinstance THEN a.params ELSE default_params

NetInit ==
    /\ pc = "idle"
    /\ \E a \in ConstructorArgs : params = SSDNet_init(a)
    /\ args = [op |-> "__init__"]
    /\ locals = <<>>
    /\ ret = NoReturn
    /\ graph_losses = <<>>

NetNext ==
    \/ SSDNet_net
    \/ SSDNet_update_feature_shapes
    \/ SSDNet_anchors

SpecNet == NetInit /\ [][NetNext]_vars

(***************************************************************************)
(* Claims about SSDNet and its helpers.                                    *)
(***************************************************************************)
ValidConfig(p) == \A f \in PerLayerLists : Len(p[f]) = Len(p.feat_layers)

\* whether shape[1:4] of prediction l is fully known
FullyKnown(l) == \A k \in 2..4 : l.shape[k] # None

UpdatedShapes == args.op = "update_feature_shapes"

\* C1: ssd_feat_shapes_from_net decides each layer independently: a layer with
\* fully known shape[1:4] yields that shape at its index, a layer with an
\* unknown dimension yields default_shapes[i], whatever the other layers are.
C1_LayersDecidedIndependently ==
    (UpdatedShapes /\ ValidConfig(params)) =>
        \A i \in DOMAIN args.predictions :
            /\ i \in DOMAIN params.feat_shapes
            /\ FullyKnown(args.predictions[i]) =>
                  params.feat_shapes[i] = SubSeq(args.predictions[i].shape, 2, 4)
            /\ (~FullyKnown(args.predictions[i]) /\ i \in DOMAIN locals.feat_shapes) =>
                  params.feat_shapes[i] = locals.feat_shapes[i]

\* the per-layer lists ssd_net indexes, and those ssd_anchors_all_layers indexes
NetLists == {"feat_layers", "anchor_sizes", "anchor_ratios", "normalizations"}

AnchorLists == {"feat_shapes", "anchor_sizes", "anchor_ratios", "anchor_steps"}

SameLength(p, lists) == \A f, g \in lists : Len(p[f]) = Len(p[g])

\* C8: when the per-layer lists do not all have the same length, ssd_net and
\* ssd_anchors_all_layers fail with an error, for a shorter and for a longer list.
C8_MismatchedListsFail ==
    /\ (args.op = "net" /\ ~SameLength(params, NetLists)) => IsRaised(ret)
    /\ (args.op = "anchors" /\ ~SameLength(params, AnchorLists)) => IsRaised(ret)

\* C9: for a valid configuration, after any sequence of net, update_feature_shapes
\* and anchors calls, the anchors of anchors() and the predictions and
\* localisations of net() have one entry per configured layer, entry i being
\* that of layer feat_layers[i].
\* (net() has no result when the blocks cannot be built for the input: a
\* ValueError of the graph, never an IndexError of the lists.)
C9_ListsAlignedWithLayers ==
    ValidConfig(params) =>
        /\ args.op = "anchors" =>
              /\ ~IsRaised(ret)
              /\ Len(ret.layers_anchors) = Len(params.feat_layers)
              /\ \A i \in DOMAIN params.feat_layers :
                    /\ ret.layers_anchors[i].grid =
                          <<params.feat_shapes[i][1], params.feat_shapes[i][2], 1>>
                    /\ ret.layers_anchors[i].h0 =
                          <<params.anchor_sizes[i][1], args.img_shape[1]>>
                    /\ ret.layers_anchors[i].y0[1] =
                          params.anchor_offset[1] * params.anchor_steps[i]
                    /\ ret.layers_anchors[i].num_anchors =
                          Len(params.anchor_sizes[i]) + Len(params.anchor_ratios[i])
        /\ (args.op = "net" /\ IsRaised(ret)) =>
              /\ ret = Raised("ValueError")
              /\ negative_dimension(args.inputs)
        /\ (args.op = "net" /\ ~IsRaised(ret)) =>
              /\ Len(ret.predictions) = Len(params.feat_layers)
              /\ Len(ret.localisations) = Len(params.feat_layers)
              /\ \A i \in DOMAIN params.feat_layers :
                    /\ ret.predictions[i].layer = params.feat_layers[i]
                    /\ ret.localisations[i].layer = params.feat_layers[i]
                    /\ ret.predictions[i].shape[4] =
                          Len(params.anchor_sizes[i]) + Len(params.anchor_ratios[i])
                    /\ ret.localisations[i].shape[4] = ret.predictions[i].shape[4]

\* C9 witness: anchors() of a valid configuration of two or more layers whose
\* feature shapes an earlier call has replaced.
C9_Witness ==
    /\ ValidConfig(params)
    /\ Len(params.feat_layers) >= 2
    /\ args.op = "anchors"
    /\ ~IsRaised(ret)
    /\ params.feat_shapes # Prefix(default_params.feat_shapes, Len(params.feat_layers))

(***************************************************************************)
(* ssd_size_bounds_to_values.  The relative bounds are in thousandths      *)
(* (0.15 -> 150), the sizes returned in 1/2000 of a pixel (22.5 -> 45000), *)
(* so that every value of the code is an integer here.                     *)
(***************************************************************************)
\* a size of the model, from pixels
Pixels(x) == 2000 * x

\* the bounds, in thousandths, whose float product with 100 falls just below
\* the integer: 0.29 * 100 = 28.999999999999996 (no other bound of 0..1000 does)
TruncatedLow == {290, 570, 580}

\* int(size_bounds[i] * 100) of lines 210-211 for a bound in thousandths
int_percent(bound) ==
    IF bound \in TruncatedLow THEN bound \div 10 - 1 ELSE bound \div 10

\* math.floor(a / b) of line 212, b # 0
floor_div(a, b) == IF b > 0 THEN a \div b ELSE (-a) \div (-b)

\* range(ratio, stop, step) of the loop of lines 215-216, sizes so far: a
\* positive step counts up to below stop, a negative one down to above it
RECURSIVE size_bounds_loop(_, _, _, _, _)
size_bounds_loop(ratio, stop, step, img_size, sizes) ==
    IF (step > 0 /\ ratio >= stop) \/ (step < 0 /\ ratio <= stop) THEN sizes
    ELSE size_bounds_loop(ratio + step, stop, step, img_size,
            Append(sizes, <<img_size * ratio * 20, img_size * (ratio + step) * 20>>))

\* mutant of ssd_size_bounds_to_values: the step divides by n_feat_layers - 1
size_bounds_step_off_by_one(size_bounds, n_feat_layers, img_shape) ==
    IF img_shape[1] # img_shape[2] THEN Raised("AssertionError")
    ELSE IF n_feat_layers = 1 THEN Raised("ZeroDivisionError")
    ELSE LET img_size == img_shape[1]
             min_ratio == int_percent(size_bounds[1])
             max_ratio == int_percent(size_bounds[2])
             step == floor_div(max_ratio - min_ratio, n_feat_layers - 1)
         IN  IF step = 0 THEN Raised("ValueError")
             ELSE [sizes |-> size_bounds_loop(min_ratio, max_ratio + 1, step, img_size,
                        << <<img_size * size_bounds[1], img_size * size_bounds[1] * 2>> >>)]

\* ssd_size_bounds_to_values (lines 195-217): the assert, the division by
\* n_feat_layers - 2, range() refusing a step of 0
ssd_size_bounds_to_values(size_bounds, n_feat_layers, img_shape) ==
    IF img_shape[1] # img_shape[2] THEN Raised("AssertionError")
    ELSE IF n_feat_layers = 2 THEN Raised("ZeroDivisionError")
    ELSE LET img_size == img_shape[1]
             min_ratio == int_percent(size_bounds[1])
             max_ratio == int_percent(size_bounds[2])
             step == floor_div(max_ratio - min_ratio, n_feat_layers - 2)
         IN  IF step = 0 THEN Raised("ValueError")
             ELSE [sizes |-> size_bounds_loop(min_ratio, max_ratio + 1, step, img_size,
                        << <<img_size * size_bounds[1], img_size * size_bounds[1] * 2>> >>)]

SizeBoundsMin == {100, 150, 155, 200, 290}

SizeBoundsMax == {210, 250, 500, 880, 900}

ImgShapes == {<<300, 300>>, <<512, 512>>, <<300, 512>>}

size_bounds_call ==
    /\ pc = "ssd_size_bounds_to_values"
    /\ ret' = ssd_size_bounds_to_values(args.size_bounds, args.n_feat_layers,
                                        args.img_shape)
    /\ pc' = "done"
    /\ UNCHANGED <<args, locals, params, graph_losses>>

SizesInit ==
    /\ pc = "ssd_size_bounds_to_values"
    /\ \E lo \in SizeBoundsMin : \E hi \in SizeBoundsMax :
         \E n \in 1..MaxFeatLayers : \E img_shape \in ImgShapes :
            args = [size_bounds |-> <<lo, hi>>, n_feat_layers |-> n,
                    img_shape |-> img_shape]
    /\ locals = <<>>
    /\ ret = Unset
    /\ params = default_params
    /\ graph_losses = <<>>

SizesNext == size_bounds_call

SpecSizes == SizesInit /\ [][SizesNext]_vars

\* the call of the default configuration: bounds (0.15, 0.9), 6 layers, 300 x 300
DefaultSizesCall ==
    /\ pc = "done"
    /\ args = [size_bounds |-> <<150, 900>>, n_feat_layers |-> 6,
               img_shape |-> <<300, 300>>]

\* the documented table, anchor_sizes of SSDNet.default_params
DocumentedSizes ==
    [i \in DOMAIN default_params.anchor_sizes |->
        <<Pixels(default_params.anchor_sizes[i][1]),
          Pixels(default_params.anchor_sizes[i][2])>>]

\* C7: ssd_size_bounds_to_values((0.15, 0.9), 6, (300, 300)) returns exactly the
\* documented table (21,45), (45,99), (99,153), (153,207), (207,261), (261,315).
C7_ReproducesDocumentedTable ==
    DefaultSizesCall => (~IsRaised(ret) /\ ret.sizes = DocumentedSizes)

\* C7 as amended: the call returns six pairs, the documented table except for
\* the smaller size of the first pair, which is 22.5 (300 * 0.15 / 2), not 21.
C7_DocumentedTableButFirstSize ==
    DefaultSizesCall =>
        /\ ~IsRaised(ret)
        /\ Len(ret.sizes) = 6
        /\ ret.sizes[1] = <<45000, Pixels(45)>>
        /\ \A i \in 2..6 : ret.sizes[i] = DocumentedSizes[i]

\* C7 witness: the call of the default configuration has returned.
C7_Witness == DefaultSizesCall /\ ~IsRaised(ret)

\* the percentage of layer i >= 2: min_pct + (i - 2) * step
LayerPct(i) ==
    LET min_pct == (args.size_bounds[1] * 100) \div 1000
        max_pct == (args.size_bounds[2] * 100) \div 1000
        step == (max_pct - min_pct) \div (args.n_feat_layers - 2)
    IN  <<min_pct + (i - 2) * step, min_pct + (i - 1) * step>>

\* C14: for bounds 0 < min < max, n_feat_layers >= 3 and a square image,
\* ssd_size_bounds_to_values returns exactly n_feat_layers pairs: the first is
\* (img_size*min/2, img_size*min), each later layer i is (img_size*pct_i/100,
\* img_size*(pct_i+step)/100), step = floor((max_pct-min_pct)/(n_feat_layers-2)).
C14_OnePairPerLayer ==
    (pc = "done" /\ args.n_feat_layers >= 3 /\ args.img_shape[1] = args.img_shape[2]
        /\ 0 < args.size_bounds[1] /\ args.size_bounds[1] < args.size_bounds[2]) =>
        /\ ~IsRaised(ret)
        /\ Len(ret.sizes) = args.n_feat_layers
        /\ ret.sizes[1] = <<(Pixels(args.img_shape[1]) * args.size_bounds[1]) \div 2000,
                            (Pixels(args.img_shape[1]) * args.size_bounds[1]) \div 1000>>
        /\ \A i \in 2..Len(ret.sizes) :
              ret.sizes[i] = <<(Pixels(args.img_shape[1]) * LayerPct(i)[1]) \div 100,
                               (Pixels(args.img_shape[1]) * LayerPct(i)[2]) \div 100>>

(***************************************************************************)
(* SSDNet.detected_bboxes.  The four routines it calls live outside this   *)
(* file; they are modelled for one class and one image, on boxes that are  *)
(* intervals <<lo, hi>>, scores and thresholds in tenths.                  *)
(***************************************************************************)
\* the subsequence of s at the indices of set idx, in order
RECURSIVE Pick(_, _, _)
Pick(s, idx, i) ==
    IF i > Len(s) THEN <<>>
    ELSE (IF i \in idx THEN <<s[i]>> ELSE <<>>) \o Pick(s, idx, i + 1)

\* ssd_common.tf_ssd_bboxes_select: the boxes scoring above the threshold
tf_ssd_bboxes_select(predictions, localisations, select_threshold) ==
    LET idx == {i \in DOMAIN predictions :
                   select_threshold = None \/ predictions[i] > select_threshold}
    IN  [rscores |-> Pick(predictions, idx, 1), rbboxes |-> Pick(localisations, idx, 1)]

\* position of the highest score, the first one among equals
ArgMax(scores) ==
    CHOOSE i \in DOMAIN scores :
        /\ \A j \in DOMAIN scores : scores[j] <= scores[i]
        /\ \A j \in 1..(i - 1) : scores[j] < scores[i]

RECURSIVE SortDesc(_, _)
SortDesc(scores, bboxes) ==
    IF scores = <<>> THEN [rscores |-> <<>>, rbboxes |-> <<>>]
    ELSE LET i == ArgMax(scores)
             rest == SortDesc(Pick(scores, DOMAIN scores \ {i}, 1),
                              Pick(bboxes, DOMAIN scores \ {i}, 1))
         IN  [rscores |-> <<scores[i]>> \o rest.rscores,
              rbboxes |-> <<bboxes[i]>> \o rest.rbboxes]

\* tfe.bboxes_sort: by decreasing score, the first top_k kept
bboxes_sort(scores, bboxes, top_k) ==
    LET r == SortDesc(scores, bboxes)
    IN  [rscores |-> SubSeq(r.rscores, 1, Min(top_k, Len(scores))),
         rbboxes |-> SubSeq(r.rbboxes, 1, Min(top_k, Len(scores)))]

Max(a, b) == IF a > b THEN a ELSE b

BoxLen(b) == Max(0, b[2] - b[1])

Intersect(a, b) == <<Max(a[1], b[1]), Min(a[2], b[2])>>

\* whether the overlap (Jaccard) of a and b exceeds threshold / 10
Overlaps(a, b, threshold) ==
    LET inter == BoxLen(Intersect(a, b))
        union == BoxLen(a) + BoxLen(b) - inter
    IN  10 * inter > threshold * union

\* greedy suppression over boxes already sorted by score: kept indices so far
RECURSIVE NmsKeep(_, _, _, _)
NmsKeep(bboxes, threshold, i, kept) ==
    IF i > Len(bboxes) THEN kept
    ELSE NmsKeep(bboxes, threshold, i + 1,
                 IF \E k \in kept : Overlaps(bboxes[k], bboxes[i], threshold)
                 THEN kept ELSE kept \cup {i})

\* tfe.bboxes_nms_batch: suppression at nms_threshold, the first keep_top_k kept
bboxes_nms_batch(scores, bboxes, nms_threshold, keep_top_k) ==
    LET kept == NmsKeep(bboxes, nms_threshold, 1, {})
        rs == Pick(scores, kept, 1)
        rb == Pick(bboxes, kept, 1)
    IN  [rscores |-> SubSeq(rs, 1, Min(keep_top_k, Len(rs))),
         rbboxes |-> SubSeq(rb, 1, Min(keep_top_k, Len(rb)))]

\* tfe.bboxes_clip: every box cut to the clipping rectangle
bboxes_clip(clipping_bbox, bboxes) ==
    [i \in DOMAIN bboxes |-> Intersect(bboxes[i], clipping_bbox)]

\* one call of an outside routine, as the pipeline made it
Call(name, scores, bboxes, parameters, out) ==
    [name |-> name, scores |-> scores, bboxes |-> bboxes, parameters |-> parameters,
     out |-> out]

\* line 173: rscores, rbboxes = ssd_common.tf_ssd_bboxes_select(...)
detected_bboxes_select ==
    /\ pc = "detected_bboxes"
    /\ LET r == tf_ssd_bboxes_select(args.predictions, args.localisations,
                                     args.select_threshold)
       IN  locals' = [rscores |-> r.rscores, rbboxes |-> r.rbboxes,
                      calls |-> <<Call("select", args.predictions, args.localisations,
                                       <<args.select_threshold>>, r)>>]
    /\ pc' = "sort"
    /\ UNCHANGED <<args, ret, params, graph_losses>>

\* line 175: rscores, rbboxes = tfe.bboxes_sort(rscores, rbboxes, top_k=top_k)
detected_bboxes_sort ==
    /\ pc = "sort"
    /\ LET r == bboxes_sort(locals.rscores, locals.rbboxes, args.top_k)
       IN  locals' = [rscores |-> r.rscores, rbboxes |-> r.rbboxes,
                      calls |-> Append(locals.calls,
                                   Call("sort", locals.rscores, locals.rbboxes,
                                        <<args.top_k>>, r))]
    /\ pc' = "nms"
    /\ UNCHANGED <<args, ret, params, graph_losses>>

\* mutant of detected_bboxes_nms: the boxes are clipped before the suppression
detected_bboxes_nms_clip_first ==
    /\ pc = "nms"
    /\ LET clipped == IF args.clipping_bbox # NoBox
                      THEN bboxes_clip(args.clipping_bbox, locals.rbboxes)
                      ELSE locals.rbboxes
           r == bboxes_nms_batch(locals.rscores, clipped, args.nms_threshold,
                                 args.keep_top_k)
       IN  locals' = [rscores |-> r.rscores, rbboxes |-> r.rbboxes,
                      calls |-> locals.calls
                          \o (IF args.clipping_bbox # NoBox
                              THEN <<Call("clip", <<>>, locals.rbboxes,
                                          <<args.clipping_bbox>>,
                                          [rbboxes |-> clipped])>>
                              ELSE <<>>)
                          \o <<Call("nms", locals.rscores, clipped,
                                    <<args.nms_threshold, args.keep_top_k>>, r)>>]
    /\ pc' = "return"
    /\ UNCHANGED <<args, ret, params, graph_losses>>

\* line 177: rscores, rbboxes = tfe.bboxes_nms_batch(rscores, rbboxes, ...)
detected_bboxes_nms ==
    /\ pc = "nms"
    /\ LET r == bboxes_nms_batch(locals.rscores, locals.rbboxes, args.nms_threshold,
                                 args.keep_top_k)
       IN  locals' = [rscores |-> r.rscores, rbboxes |-> r.rbboxes,
                      calls |-> Append(locals.calls,
                                   Call("nms", locals.rscores, locals.rbboxes,
                                        <<args.nms_threshold, args.keep_top_k>>, r))]
    /\ pc' = IF args.clipping_bbox # NoBox THEN "clip" ELSE "return"
    /\ UNCHANGED <<args, ret, params, graph_losses>>

\* lines 178-179: rbboxes = tfe.bboxes_clip(clipping_bbox, rbboxes)
detected_bboxes_clip ==
    /\ pc = "clip"
    /\ LET rbboxes == bboxes_clip(args.clipping_bbox, locals.rbboxes)
       IN  locals' = [rscores |-> locals.rscores, rbboxes |-> rbboxes,
                      calls |-> Append(locals.calls,
                                   Call("clip", <<>>, locals.rbboxes,
                                        <<args.clipping_bbox>>,
                                        [rbboxes |-> rbboxes]))]
    /\ pc' = "return"
    /\ UNCHANGED <<args, ret, params, graph_losses>>

\* line 180: return rscores, rbboxes
detected_bboxes_return ==
    /\ pc = "return"
    /\ ret' = [rscores |-> locals.rscores, rbboxes |-> locals.rbboxes]
    /\ pc' = "done"
    /\ UNCHANGED <<args, locals, params, graph_losses>>

DetectionScores == {3, 6, 9}

DetectionBoxes == {<<0, 4>>, <<1, 4>>, <<3, 4>>}

DetectInit ==
    /\ pc = "detected_bboxes"
    /\ \E n \in 0..MaxDetections :
         \E predictions \in [1..n -> DetectionScores] :
         \E localisations \in [1..n -> DetectionBoxes] :
         \E select_threshold \in {None, 5} : \E clipping_bbox \in {NoBox, <<0, 2>>} :
         \E top_k \in {1, 400} : \E keep_top_k \in {1, 200} :
            args = [predictions |-> predictions, localisations |-> localisations,
                    select_threshold |-> select_threshold, nms_threshold |-> 5,
                    clipping_bbox |-> clipping_bbox, top_k |-> top_k,
                    keep_top_k |-> keep_top_k]
    /\ locals = [rscores |-> <<>>, rbboxes |-> <<>>, calls |-> <<>>]
    /\ ret = Unset
    /\ params = default_params
    /\ graph_losses = <<>>

DetectNext ==
    \/ detected_bboxes_select
    \/ detected_bboxes_sort
    \/ detected_bboxes_nms
    \/ detected_bboxes_clip
    \/ detected_bboxes_return

SpecDetect == DetectInit /\ [][DetectNext]_vars

(***************************************************************************)
(* Claims about SSDNet.detected_bboxes.                                    *)
(***************************************************************************)
CallNames == [i \in DOMAIN locals.calls |-> locals.calls[i].name]

ExpectedCalls ==
    <<"select", "sort", "nms">>
        \o (IF args.clipping_bbox # NoBox THEN <<"clip">> ELSE <<>>)

\* what select -> sort -> NMS -> clip gives on the arguments of the call
NmsFirstResult ==
    LET a == tf_ssd_bboxes_select(args.predictions, args.localisations,
                                  args.select_threshold)
        b == bboxes_sort(a.rscores, a.rbboxes, args.top_k)
        c == bboxes_nms_batch(b.rscores, b.rbboxes, args.nms_threshold, args.keep_top_k)
    IN  [rscores |-> c.rscores,
         rbboxes |-> IF args.clipping_bbox # NoBox
                     THEN bboxes_clip(args.clipping_bbox, c.rbboxes) ELSE c.rbboxes]

\* what clipping before the suppression would give
ClipFirstResult ==
    LET a == tf_ssd_bboxes_select(args.predictions, args.localisations,
                                  args.select_threshold)
        b == bboxes_sort(a.rscores, a.rbboxes, args.top_k)
    IN  bboxes_nms_batch(b.rscores, bboxes_clip(args.clipping_bbox, b.rbboxes),
                         args.nms_threshold, args.keep_top_k)

\* C10: detected_bboxes runs select -> sort (top_k) -> NMS (nms_threshold,
\* keep_top_k) -> clip in this order, each step on the output of the one before;
\* it clips only when a clipping rectangle is given and never before NMS, and
\* the scores returned are those NMS produced.
C10_PipelineOrder ==
    /\ Len(CallNames) <= Len(ExpectedCalls)
    /\ CallNames = SubSeq(ExpectedCalls, 1, Len(CallNames))
    /\ \A i \in DOMAIN locals.calls :
          LET c == locals.calls[i]
          IN  /\ c.bboxes = IF i = 1 THEN args.localisations
                            ELSE locals.calls[i - 1].out.rbboxes
              /\ c.name # "clip" =>
                    c.scores = IF i = 1 THEN args.predictions
                               ELSE locals.calls[i - 1].out.rscores
              /\ c.parameters =
                    CASE c.name = "select" -> <<args.select_threshold>>
                      [] c.name = "sort" -> <<args.top_k>>
                      [] c.name = "nms" -> <<args.nms_threshold, args.keep_top_k>>
                      [] c.name = "clip" -> <<args.clipping_bbox>>
    /\ pc = "done" =>
          /\ CallNames = ExpectedCalls
          /\ ret.rscores = locals.calls[3].out.rscores
          /\ ret.rbboxes = locals.calls[Len(locals.calls)].out.rbboxes
          /\ ret = NmsFirstResult

\* C10 witness: a finished call with a clipping rectangle on boxes for which
\* clipping before NMS would have kept another set of detections.
C10_Witness ==
    /\ pc = "done"
    /\ args.clipping_bbox # NoBox
    /\ ret.rscores # ClipFirstResult.rscores


(***************************************************************************)
(* One feature layer: ssd_anchor_one_layer computes its anchors and        *)
(* ssd_multibox_layer its predictions, from the same sizes and ratios.     *)
(***************************************************************************)
MaxSizes == 3

MaxRatios == 2

\* the sequences over S of length lo..hi
SeqsOf(S, lo, hi) == UNION {[1..n -> S] : n \in lo..hi}

AnchorSizes == SeqsOf({21, 45, 99}, 0, MaxSizes)

AnchorRatios == SeqsOf({<<2, 1>>, <<1, 2>>, <<3, 1>>}, 0, MaxRatios)

AnchorFeatShapes == {<<38, 38>>, <<2, 3>>, <<1, 1>>}

AnchorImgShapes == {<<300, 300>>, <<300, 512>>}

\* a call of ssd_anchor_one_layer (lines 245-295)
anchor_one_layer_call ==
    /\ pc = "ssd_anchor_one_layer"
    /\ LET anchors == ssd_anchor_one_layer(args.img_shape, args.feat_shape, args.sizes,
                                           args.ratios, args.step, args.offset)
       IN  /\ ret' = anchors
           /\ locals' = [anchors |-> anchors]
           /\ pc' = IF IsRaised(anchors) THEN "done" ELSE "ssd_multibox_layer"
    /\ UNCHANGED <<args, params, graph_losses>>

\* a call of ssd_multibox_layer (lines 331-352) for the same layer
multibox_layer_call ==
    /\ pc = "ssd_multibox_layer"
    /\ ret' = ssd_multibox_layer(
                 [layer |-> "block4",
                  shape |-> <<1, args.feat_shape[1], args.feat_shape[2], 512>>],
                 params.num_classes, args.sizes, args.ratios, -1)
    /\ pc' = "done"
    /\ UNCHANGED <<args, locals, params, graph_losses>>

AnchorInit ==
    /\ pc = "ssd_anchor_one_layer"
    /\ \E img_shape \in AnchorImgShapes : \E feat_shape \in AnchorFeatShapes :
         \E sizes \in AnchorSizes : \E ratios \in AnchorRatios :
            args = [img_shape |-> img_shape, feat_shape |-> feat_shape,
                    sizes |-> sizes, ratios |-> ratios,
                    step |-> 8, offset |-> default_params.anchor_offset]
    /\ locals = <<>>
    /\ ret = Unset
    /\ params = default_params
    /\ graph_losses = <<>>

AnchorNext ==
    \/ anchor_one_layer_call
    \/ multibox_layer_call

SpecAnchor == AnchorInit /\ [][AnchorNext]_vars

\* the call of ssd_anchor_one_layer has returned its anchors
AnchorsReturned == pc \in {"ssd_multibox_layer", "done"} /\ ~IsRaised(locals.anchors)

RECURSIVE GCD(_, _)
GCD(a, b) == IF b = 0 THEN a ELSE GCD(b, a % b)

\* a fraction in lowest terms
Reduced(a) == LET g == GCD(a[1], a[2]) IN <<a[1] \div g, a[2] \div g>>

\* two lengths given by the squares a and b are equal
EqualLength(a, b) == Reduced(a) = Reduced(b)

EqualLengths(x, y) ==
    /\ Len(x) = Len(y)
    /\ \A k \in 1..Len(x) : EqualLength(x[k], y[k])

\* the heights in the documented order: ratio-1 small, ratio-1 large when a
\* second size is given, then sizes[0] / img / sqrt(r) per ratio r
OrderedHeights ==
    LET s == args.sizes
        d == args.img_shape[1] * args.img_shape[1]
    IN  << <<s[1] * s[1], d>> >>
        \o (IF Len(s) >= 2 THEN << <<s[1] * s[2], d>> >> ELSE <<>>)
        \o [i \in 1..Len(args.ratios) |->
                <<s[1] * s[1] * args.ratios[i][2], d * args.ratios[i][1]>>]

\* the widths in the documented order, sizes[0] / img * sqrt(r) per ratio r
OrderedWidths ==
    LET s == args.sizes
        d == args.img_shape[2] * args.img_shape[2]
    IN  << <<s[1] * s[1], d>> >>
        \o (IF Len(s) >= 2 THEN << <<s[1] * s[2], d>> >> ELSE <<>>)
        \o [i \in 1..Len(args.ratios) |->
                <<s[1] * s[1] * args.ratios[i][1], d * args.ratios[i][2]>>]

\* anchors of the layer: one per cell of the centre grid and per entry of h
LayerAnchorCount == locals.anchors.grid[1] * locals.anchors.grid[2] * Len(locals.anchors.h)

\* C11: with one or two sizes, ssd_anchor_one_layer returns h and w of length
\* K = len(sizes) + len(ratios) in the order ratio-1 small, ratio-1 large (only
\* with a second size), then one anchor per ratio in the given order, with
\* centre grids of shape H x W x 1, so that the layer has H*W*K anchors.
C11_AnchorOrderAndCount ==
    (AnchorsReturned /\ Len(args.sizes) \in {1, 2}) =>
        /\ Len(locals.anchors.h) = Len(args.sizes) + Len(args.ratios)
        /\ EqualLengths(locals.anchors.h, OrderedHeights)
        /\ EqualLengths(locals.anchors.w, OrderedWidths)
        /\ locals.anchors.grid = <<args.feat_shape[1], args.feat_shape[2], 1>>
        /\ LayerAnchorCount =
              args.feat_shape[1] * args.feat_shape[2] * (Len(args.sizes) + Len(args.ratios))

\* C11 witness: sizes [21, 45], ratios [2, 0.5] on a 38 x 38 layer gave K = 4
\* and 5776 anchors.
C11_Witness ==
    /\ AnchorsReturned
    /\ args.sizes = <<21, 45>>
    /\ args.ratios = <<<<2, 1>>, <<1, 2>>>>
    /\ args.feat_shape = <<38, 38>>
    /\ Len(locals.anchors.h) = 4
    /\ LayerAnchorCount = 5776

\* C15: for a non-empty sizes list, of any length, every one of the
\* K = len(sizes) + len(ratios) slots of h and w, the K that ssd_multibox_layer
\* counts for its output channels, holds a strictly positive height and width.
C15_EverySlotPositive ==
    (pc = "done" /\ Len(args.sizes) >= 1) =>
        /\ ~IsRaised(locals.anchors)
        /\ Len(locals.anchors.h) = ret.loc_pred.shape[4]
        /\ Len(locals.anchors.w) = ret.cls_pred.shape[4]
        /\ \A k \in 1..(Len(args.sizes) + Len(args.ratios)) :
              locals.anchors.h[k][1] > 0 /\ locals.anchors.w[k][1] > 0

====
